---- MODULE Spec2Model ----
(***************************************************************************)
(* Model of the parachain block validation of cumulus                      *)
(* (runtime/src/validate_block/implementation.rs): the witness-backed      *)
(* storage view (WitnessStorage), the six ext_* adapters bound over the     *)
(* global STORAGE slot, and the validate_block pipeline.                    *)
(*                                                                         *)
(* The trie library (substrate_trie / trie-db / memory-db) is modelled by   *)
(* what the calls made in the source do: MemoryDB is a reference counted    *)
(* content-addressed map that always contains the null node, TrieDB walks   *)
(* nodes by hash, TrieDBMut rewrites the nodes on the path of a change and  *)
(* on commit removes the replaced nodes and inserts the new ones.           *)
(* Nibbles are bits, a node blob is the tuple of its fields and a hash is   *)
(* the injective tag <<"h", blob>> of the blob it addresses.                *)
(***************************************************************************)
EXTENDS Integers, Sequences, FiniteSets, TLC

\* ------------------------------------------------------------------------
\* Bounds of the model
\* ------------------------------------------------------------------------
MaxWrites == 2
MaxRootCalls == 2

\* ------------------------------------------------------------------------
\* Program constants
\* ------------------------------------------------------------------------
STORAGE_ROOT_LEN == 32
\* u32::max_value(): all 32 bits set, written as the two's complement -1
\* because the integers of the checker are 32-bit signed.
U32_MAX == -1

\* ------------------------------------------------------------------------
\* Option<T> and Result<T, E>
\* ------------------------------------------------------------------------
None == <<>>
Some(v) == <<v>>
IsSome(o) == Len(o) = 1
Ok(v) == <<"ok", v>>
Err == <<"err">>
IsOk(r) == r[1] = "ok"

\* Result::ok(): Ok(v) becomes Some(v), an error becomes None.
ResultOk(r) == IF IsOk(r) THEN Some(r[2]) ELSE None

\* ------------------------------------------------------------------------
\* Storage keys (nibble sequences) and values (byte sequences)
\* ------------------------------------------------------------------------
K1 == <<0, 0>>
K2 == <<0, 0, 1, 0>>
K3 == <<0, 1>>
Keys == {K1, K2, K3}
V0 == <<>>
V1 == <<7>>
V2 == <<8, 9>>
Values == {V0, V2}
LeafValues == {V1, V2}

StartsWith(s, p) == Len(p) <= Len(s) /\ SubSeq(s, 1, Len(p)) = p
Mid(s, n) == SubSeq(s, n + 1, Len(s))

RECURSIVE CommonPrefix(_, _)
CommonPrefix(a, b) ==
    IF a = <<>> \/ b = <<>> THEN 0
    ELSE IF a[1] = b[1] THEN 1 + CommonPrefix(Tail(a), Tail(b)) ELSE 0

\* ------------------------------------------------------------------------
\* Trie nodes and hashes
\* ------------------------------------------------------------------------
NullNodeData == <<"empty">>
Leaf(partial, value) == <<"leaf", partial, value>>
Extension(partial, child) == <<"ext", partial, child>>
Branch(c0, c1, value) == <<"branch", c0, c1, value>>
NoChild == <<>>

HashOf(blob) == <<"h", blob>>
HashedNullNode == HashOf(NullNodeData)
BogusRoot == HashOf(<<"absent">>)

\* ------------------------------------------------------------------------
\* MemoryDB: hash -> (value, reference count)
\* ------------------------------------------------------------------------
MemoryDBDefault == << >>

MemDBRc(db, h) == IF h \in DOMAIN db THEN db[h].rc ELSE 0

MemDBEmplace(db, h, value) ==
    IF value = NullNodeData THEN db
    ELSE IF h \in DOMAIN db
         THEN [db EXCEPT ![h] = [value |-> value, rc |-> @.rc + 1]]
         ELSE db @@ (h :> [value |-> value, rc |-> 1])

MemDBInsert(db, value) == MemDBEmplace(db, HashOf(value), value)

MemDBContains(db, h) ==
    \/ h = HashedNullNode
    \/ MemDBRc(db, h) > 0

MemDBGet(db, h) ==
    IF h = HashedNullNode THEN Some(NullNodeData)
    ELSE IF MemDBRc(db, h) > 0 THEN Some(db[h].value) ELSE None

MemDBRemove(db, h) ==
    IF h = HashedNullNode THEN db
    ELSE IF h \in DOMAIN db
         THEN [db EXCEPT ![h] = [value |-> @.value, rc |-> @.rc - 1]]
         ELSE db @@ (h :> [value |-> h[2], rc |-> -1])

\* ------------------------------------------------------------------------
\* TrieDB: read_trie_value
\* ------------------------------------------------------------------------
RECURSIVE look_up(_, _, _)
look_up(db, hash, key) ==
    LET got == MemDBGet(db, hash) IN
    IF ~IsSome(got) THEN Err
    ELSE LET node == got[1] IN
         CASE node[1] = "leaf" ->
                Ok(IF node[2] = key THEN Some(node[3]) ELSE None)
           [] node[1] = "ext" ->
                IF StartsWith(key, node[2])
                THEN look_up(db, node[3], Mid(key, Len(node[2])))
                ELSE Ok(None)
           [] node[1] = "branch" ->
                IF key = <<>> THEN Ok(node[4])
                ELSE IF node[2 + key[1]] = NoChild THEN Ok(None)
                     ELSE look_up(db, node[2 + key[1]], Tail(key))
           [] OTHER -> Ok(None)

read_trie_value(db, root, key) ==
    IF ~MemDBContains(db, root) THEN Err ELSE look_up(db, root, key)

\* ------------------------------------------------------------------------
\* TrieDBMut: node handles of the in-memory arena
\*   <<"H", hash>>          a node still in the database (NodeHandle::Hash)
\*   <<"N", node>>          a new in-memory node        (Stored::New)
\*   <<"C", node, hash>>    a loaded, unchanged node    (Stored::Cached)
\* The children of an in-memory node are handles.
\* ------------------------------------------------------------------------
WHash(h) == <<"H", h>>
WNew(node) == <<"N", node>>
WCached(node, h) == <<"C", node, h>>

ChildHandle(c) == IF c = NoChild THEN NoChild ELSE WHash(c)

\* Node::from_encoded: the children of a decoded node are hash handles.
FromEncoded(blob) ==
    CASE blob[1] = "ext" -> Extension(blob[2], WHash(blob[3]))
      [] blob[1] = "branch" ->
            Branch(ChildHandle(blob[2]), ChildHandle(blob[3]), blob[4])
      [] OTHER -> blob

\* TrieDBMut::cache: load the node of a hash from the database.
Cache(db, h) ==
    LET got == MemDBGet(db, h) IN
    IF IsSome(got) THEN Ok(WCached(FromEncoded(got[1]), h)) ELSE Err

\* The Stored node behind a handle, loading it when it is a hash.
Load(db, handle) == IF handle[1] = "H" THEN Cache(db, handle[2]) ELSE Ok(handle)

\* TrieDBMut::inspect: turn the action of an inspector into the stored
\* node, putting a replaced or deleted cached node on the death row.
Inspect(stored, pfx, r) ==
    IF ~r.ok THEN [ok |-> FALSE, gone |-> FALSE, h |-> NoChild,
                   changed |-> FALSE, dr |-> r.dr]
    ELSE IF stored[1] = "N"
    THEN CASE r.act = "restore" ->
                [ok |-> TRUE, gone |-> FALSE, h |-> WNew(r.node),
                 changed |-> FALSE, dr |-> r.dr]
           [] r.act = "replace" ->
                [ok |-> TRUE, gone |-> FALSE, h |-> WNew(r.node),
                 changed |-> TRUE, dr |-> r.dr]
           [] OTHER ->
                [ok |-> TRUE, gone |-> TRUE, h |-> NoChild,
                 changed |-> TRUE, dr |-> r.dr]
    ELSE CASE r.act = "restore" ->
                [ok |-> TRUE, gone |-> FALSE, h |-> WCached(r.node, stored[3]),
                 changed |-> FALSE, dr |-> r.dr]
           [] r.act = "replace" ->
                [ok |-> TRUE, gone |-> FALSE, h |-> WNew(r.node),
                 changed |-> TRUE, dr |-> r.dr \cup {<<stored[3], pfx>>}]
           [] OTHER ->
                [ok |-> TRUE, gone |-> TRUE, h |-> NoChild,
                 changed |-> TRUE, dr |-> r.dr \cup {<<stored[3], pfx>>}]

Failed(dr) == [ok |-> FALSE, act |-> "restore", node |-> NullNodeData, dr |-> dr]
FailedAt(dr) == [ok |-> FALSE, gone |-> FALSE, h |-> NoChild,
                 changed |-> FALSE, dr |-> dr]
Restore(node, dr) == [ok |-> TRUE, act |-> "restore", node |-> node, dr |-> dr]
Replace(node, dr) == [ok |-> TRUE, act |-> "replace", node |-> node, dr |-> dr]
Delete(dr) == [ok |-> TRUE, act |-> "delete", node |-> NullNodeData, dr |-> dr]

\* Replace(node) when the nested inspection succeeded, its failure otherwise.
ReplaceWith(r, node) == IF r.ok THEN Replace(node, r.dr) ELSE r

RECURSIVE insert_at(_, _, _, _, _, _)
RECURSIVE insert_inspector(_, _, _, _, _, _)

insert_at(db, handle, pfx, key, value, dr) ==
    LET ld == Load(db, handle) IN
    IF ~IsOk(ld) THEN FailedAt(dr)
    ELSE Inspect(ld[2], pfx, insert_inspector(db, ld[2][2], pfx, key, value, dr))

insert_inspector(db, node, pfx, partial, value, dr) ==
    CASE node[1] = "empty" -> Replace(Leaf(partial, value), dr)
      [] node[1] = "branch" ->
            IF partial = <<>>
            THEN IF node[4] = Some(value)
                 THEN Restore([node EXCEPT ![4] = Some(value)], dr)
                 ELSE Replace([node EXCEPT ![4] = Some(value)], dr)
            ELSE LET idx == 2 + partial[1] IN
                 IF node[idx] # NoChild
                 THEN LET c == insert_at(db, node[idx], pfx \o <<partial[1]>>,
                                         Tail(partial), value, dr) IN
                      IF ~c.ok THEN Failed(c.dr)
                      ELSE IF ~c.changed
                           THEN Restore([node EXCEPT ![idx] = c.h], c.dr)
                           ELSE Replace([node EXCEPT ![idx] = c.h], c.dr)
                 ELSE Replace([node EXCEPT
                                 ![idx] = WNew(Leaf(Tail(partial), value))], dr)
      [] node[1] = "leaf" ->
            LET existing == node[2]
                cp == CommonPrefix(partial, existing) IN
            IF cp = Len(existing) /\ cp = Len(partial)
            THEN IF node[3] = value
                 THEN Restore(Leaf(existing, value), dr)
                 ELSE Replace(Leaf(existing, value), dr)
            ELSE IF cp = 0
            THEN LET branch ==
                        IF existing = <<>>
                        THEN Branch(NoChild, NoChild, Some(node[3]))
                        ELSE [Branch(NoChild, NoChild, None) EXCEPT
                                ![2 + existing[1]] =
                                    WNew(Leaf(Tail(existing), node[3]))]
                     r == insert_inspector(db, branch, pfx, partial, value, dr)
                 IN ReplaceWith(r, r.node)
            ELSE IF cp = Len(existing)
            THEN LET branch == Branch(NoChild, NoChild, Some(node[3]))
                     r == insert_inspector(db, branch, pfx \o existing,
                                           Mid(partial, cp), value, dr)
                 IN ReplaceWith(r, Extension(existing, WNew(r.node)))
            ELSE LET low == Leaf(Mid(existing, cp), node[3])
                     r == insert_inspector(db, low, pfx \o SubSeq(existing, 1, cp),
                                           Mid(partial, cp), value, dr)
                 IN ReplaceWith(r, Extension(SubSeq(existing, 1, cp), WNew(r.node)))
      [] OTHER ->
            LET existing == node[2]
                cp == CommonPrefix(partial, existing) IN
            IF cp = 0
            THEN LET onward == IF Len(existing) = 1 THEN node[3]
                               ELSE WNew(Extension(Tail(existing), node[3]))
                     branch == [Branch(NoChild, NoChild, None) EXCEPT
                                  ![2 + existing[1]] = onward]
                     r == insert_inspector(db, branch, pfx, partial, value, dr)
                 IN ReplaceWith(r, r.node)
            ELSE IF cp = Len(existing)
            THEN LET c == insert_at(db, node[3], pfx \o existing,
                                    Mid(partial, cp), value, dr) IN
                 IF ~c.ok THEN Failed(c.dr)
                 ELSE IF c.changed THEN Replace(Extension(existing, c.h), c.dr)
                      ELSE Restore(Extension(existing, c.h), c.dr)
            ELSE LET low == Extension(Mid(existing, cp), node[3])
                     r == insert_inspector(db, low, pfx \o SubSeq(existing, 1, cp),
                                           Mid(partial, cp), value, dr)
                 IN ReplaceWith(r, Extension(SubSeq(existing, 1, cp), WNew(r.node)))

\* TrieDBMut::fix: restore the canonical shape after a removal. A branch
\* left with one child and no value becomes an extension, an extension is
\* merged with a leaf or extension below it, which loads that child.
RECURSIVE fix(_, _, _, _)
fix(db, node, pfx, dr) ==
    CASE node[1] = "branch" ->
            LET used == {i \in {0, 1} : node[2 + i] # NoChild} IN
            IF Cardinality(used) = 1 /\ node[4] = None
            THEN LET a == CHOOSE i \in used : TRUE IN
                 fix(db, Extension(<<a>>, node[2 + a]), pfx, dr)
            ELSE IF used = {} /\ node[4] # None
            THEN Restore(Leaf(<<>>, node[4][1]), dr)
            ELSE Restore(node, dr)
      [] node[1] = "ext" ->
            LET ld == Load(db, node[3]) IN
            IF ~IsOk(ld) THEN Failed(dr)
            ELSE LET stored == ld[2]
                     child == stored[2]
                     dr2 == IF stored[1] = "C"
                            THEN dr \cup {<<stored[3], pfx \o node[2]>>}
                            ELSE dr IN
                 CASE child[1] = "ext" ->
                        fix(db, Extension(node[2] \o child[2], child[3]), pfx, dr2)
                   [] child[1] = "leaf" ->
                        Restore(Leaf(node[2] \o child[2], child[3]), dr2)
                   [] OTHER -> Restore(Extension(node[2], stored), dr)
      [] OTHER -> Restore(node, dr)

\* Replace(fix(node)) when the fix succeeded, its failure otherwise.
ReplaceFixed(f) == IF f.ok THEN Replace(f.node, f.dr) ELSE f

RECURSIVE remove_at(_, _, _, _, _)
RECURSIVE remove_inspector(_, _, _, _, _)

remove_at(db, handle, pfx, key, dr) ==
    LET ld == Load(db, handle) IN
    IF ~IsOk(ld) THEN FailedAt(dr)
    ELSE Inspect(ld[2], pfx, remove_inspector(db, ld[2][2], pfx, key, dr))

remove_inspector(db, node, pfx, partial, dr) ==
    CASE node[1] = "empty" -> Delete(dr)
      [] node[1] = "branch" ->
            IF partial = <<>>
            THEN IF node[4] = None THEN Restore(node, dr)
                 ELSE ReplaceFixed(fix(db, [node EXCEPT ![4] = None], pfx, dr))
            ELSE LET idx == 2 + partial[1] IN
                 IF node[idx] = NoChild THEN Restore(node, dr)
                 ELSE LET c == remove_at(db, node[idx], pfx \o <<partial[1]>>,
                                         Tail(partial), dr) IN
                      IF ~c.ok THEN Failed(c.dr)
                      ELSE IF c.gone
                      THEN ReplaceFixed(fix(db, [node EXCEPT ![idx] = NoChild],
                                            pfx, c.dr))
                      ELSE IF c.changed
                           THEN Replace([node EXCEPT ![idx] = c.h], c.dr)
                           ELSE Restore([node EXCEPT ![idx] = c.h], c.dr)
      [] node[1] = "leaf" ->
            IF node[2] = partial THEN Delete(dr) ELSE Restore(node, dr)
      [] OTHER ->
            LET existing == node[2]
                cp == CommonPrefix(existing, partial) IN
            IF cp = Len(existing)
            THEN LET c == remove_at(db, node[3], pfx \o existing,
                                    Mid(partial, cp), dr) IN
                 IF ~c.ok THEN Failed(c.dr)
                 ELSE IF c.gone THEN Delete(c.dr)
                 ELSE IF c.changed
                      THEN ReplaceFixed(fix(db, Extension(existing, c.h), pfx, c.dr))
                      ELSE Restore(Extension(existing, c.h), c.dr)
            ELSE Restore(node, dr)

\* TrieDBMut::insert and TrieDBMut::remove on the trie state
\* [ok, root_handle, dr]; inserting an empty value removes the key. After a
\* failed operation the arena slot of an in-memory root has been destroyed
\* and holds the empty node.
TrieInsertOrRemove(db, t, key, change) ==
    LET removing == change = None \/ change[1] = <<>>
        done(r) ==
            IF ~r.ok
            THEN [ok |-> FALSE,
                  root_handle |-> IF t.root_handle[1] = "H" THEN t.root_handle
                                  ELSE WNew(NullNodeData),
                  dr |-> r.dr]
            ELSE [ok |-> TRUE,
                  root_handle |-> IF r.gone THEN WHash(HashedNullNode) ELSE r.h,
                  dr |-> r.dr]
    IN done(IF removing
            THEN remove_at(db, t.root_handle, <<>>, key, t.dr)
            ELSE insert_at(db, t.root_handle, <<>>, key, change[1], t.dr))

RECURSIVE TrieApply(_, _, _)
TrieApply(db, t, delta) ==
    IF delta = <<>> \/ ~t.ok THEN t
    ELSE TrieApply(db, TrieInsertOrRemove(db, t, delta[1][1], delta[1][2]),
                   Tail(delta))

\* commit_child / into_encoded: encode a new in-memory node, inserting the
\* new nodes below it into the database; the result is [hash, db].
RECURSIVE CommitChild(_, _)
CommitChild(db, handle) ==
    CASE handle[1] = "H" -> [hash |-> handle[2], db |-> db]
      [] handle[1] = "C" -> [hash |-> handle[3], db |-> db]
      [] OTHER ->
            LET node == handle[2]
                blobAndDb ==
                    CASE node[1] = "ext" ->
                            LET c == CommitChild(db, node[3]) IN
                            [blob |-> Extension(node[2], c.hash), db |-> c.db]
                      [] node[1] = "branch" ->
                            LET c0 == IF node[2] = NoChild
                                      THEN [hash |-> NoChild, db |-> db]
                                      ELSE CommitChild(db, node[2])
                                c1 == IF node[3] = NoChild
                                      THEN [hash |-> NoChild, db |-> c0.db]
                                      ELSE CommitChild(c0.db, node[3]) IN
                            [blob |-> Branch(c0.hash, c1.hash, node[4]), db |-> c1.db]
                      [] OTHER -> [blob |-> node, db |-> db]
            IN [hash |-> HashOf(blobAndDb.blob),
                db |-> MemDBInsert(blobAndDb.db, blobAndDb.blob)]

RECURSIVE RemoveAll(_, _)
RemoveAll(db, dr) ==
    IF dr = {} THEN db
    ELSE LET e == CHOOSE x \in dr : TRUE IN
         RemoveAll(MemDBRemove(db, e[1]), dr \ {e})

\* TrieDBMut::commit (run when the trie is dropped): kill the death row,
\* then write the new nodes reachable from the root.
Commit(db, t) == CommitChild(RemoveAll(db, t.dr), t.root_handle)

\* substrate_trie::delta_trie_root: [res |-> Ok(root) or Err, db |-> db']
delta_trie_root(db, root, delta) ==
    IF ~MemDBContains(db, root) THEN [res |-> Err, db |-> db]
    ELSE LET dropped(t, c) == [res |-> IF t.ok THEN Ok(c.hash) ELSE Err, db |-> c.db]
             applied(t) == dropped(t, Commit(db, t))
         IN applied(TrieApply(db, [ok |-> TRUE, root_handle |-> WHash(root),
                                   dr |-> {}], delta))

\* ------------------------------------------------------------------------
\* Reference trie: the canonical trie of a key -> value map, built top-down
\* from the set of its <<key suffix, value>> pairs (as triehash does).
\* ------------------------------------------------------------------------
RECURSIVE LongestCommon(_)
LongestCommon(S) ==
    IF \E p \in S : p[1] = <<>> THEN <<>>
    ELSE IF \E b \in {0, 1} : \A p \in S : p[1][1] = b
    THEN LET b == (CHOOSE p \in S : TRUE)[1][1] IN
         <<b>> \o LongestCommon({<<Tail(p[1]), p[2]>> : p \in S})
    ELSE <<>>

RECURSIVE BuildNode(_)
BuildNode(S) ==
    IF S = {} THEN NullNodeData
    ELSE IF Cardinality(S) = 1
    THEN LET p == CHOOSE x \in S : TRUE IN Leaf(p[1], p[2])
    ELSE LET cp == LongestCommon(S) IN
         IF cp # <<>>
         THEN Extension(cp, HashOf(BuildNode({<<Mid(p[1], Len(cp)), p[2]>> : p \in S})))
         ELSE LET sub(b) == {<<Tail(p[1]), p[2]>> :
                                p \in {q \in S : q[1] # <<>> /\ q[1][1] = b}}
                  ch(b) == IF sub(b) = {} THEN NoChild ELSE HashOf(BuildNode(sub(b)))
                  here == {p \in S : p[1] = <<>>} IN
              Branch(ch(0), ch(1),
                     IF here = {} THEN None
                     ELSE Some((CHOOSE p \in here : TRUE)[2]))

\* All node blobs of the trie below (and including) a blob.
RECURSIVE NodesOf(_)
NodesOf(blob) ==
    CASE blob[1] = "empty" -> {}
      [] blob[1] = "leaf" -> {blob}
      [] blob[1] = "ext" -> {blob} \cup NodesOf(blob[3][2])
      [] OTHER -> {blob}
                  \cup (IF blob[2] = NoChild THEN {} ELSE NodesOf(blob[2][2]))
                  \cup (IF blob[3] = NoChild THEN {} ELSE NodesOf(blob[3][2]))

\* A map m (a function on a subset of Keys) as a set of pairs.
PairsOf(m) == {<<k, m[k]>> : k \in DOMAIN m}
TrieRootOf(m) == HashOf(BuildNode(PairsOf(m)))

\* [0; STORAGE_ROOT_LEN]: 32 zero bytes.
ZeroRoot == <<"zero">>

\* root.as_ref(): the bytes of a digest. The hasher is that of the block
\* type: zero is the node it maps to 32 zero bytes, if it maps one (None for
\* BlakeTwo256 on the nodes of these tries); the bytes of every other digest
\* are the digest.
as_ref(root, zero) == IF zero = Some(root[2]) THEN ZeroRoot ELSE root

\* A root node that a hasher may map to 32 zero bytes.
ZeroDigestNode == BuildNode(PairsOf((K1 :> V2) @@ (K3 :> V2)))

\* ------------------------------------------------------------------------
\* WitnessStorage
\* ------------------------------------------------------------------------
RECURSIVE LoadWitness(_, _)
LoadWitness(db, data) ==
    IF data = <<>> THEN db
    ELSE LoadWitness(MemDBInsert(db, data[1]), Tail(data))

\* WitnessStorage::new
new(data, storage_root) ==
    LET db == LoadWitness(MemoryDBDefault, data) IN
    IF ~MemDBContains(db, storage_root) THEN Err
    ELSE Ok([witness_data |-> db, overlay |-> <<>>, storage_root |-> storage_root])

\* Mutant: a tombstone in the overlay falls through to the trie.
get_tombstone_reads_trie(self, key) ==
    LET o == IF key \in DOMAIN self.overlay THEN self.overlay[key] ELSE None
        r == IF IsSome(o) THEN Some(o)
             ELSE ResultOk(read_trie_value(self.witness_data, self.storage_root, key))
    IN IF IsSome(r) THEN r[1] ELSE None

\* Storage::get
get(self, key) ==
    LET o == IF key \in DOMAIN self.overlay THEN Some(self.overlay[key]) ELSE None
        r == IF IsSome(o) THEN o
             ELSE ResultOk(read_trie_value(self.witness_data, self.storage_root, key))
    IN IF IsSome(r) THEN r[1] ELSE None

\* Storage::insert
insert(self, key, value) ==
    [self EXCEPT !.overlay = (key :> Some(value)) @@ @]

\* Mutant: remove drops the overlay entry instead of leaving a tombstone.
remove_drops_entry(self, key) ==
    [self EXCEPT !.overlay = [k \in DOMAIN @ \ {key} |-> @[k]]]

\* Storage::remove
remove(self, key) ==
    [self EXCEPT !.overlay = (key :> None) @@ @]

\* The overlay drained in the order `order` of its keys.
Drain(overlay, order) == [i \in 1..Len(order) |-> <<order[i], overlay[order[i]]>>]

\* The orders in which a hash map with the key set S can be drained.
DrainOrders(S) ==
    {o \in [1..Cardinality(S) -> S] :
        \A i, j \in 1..Cardinality(S) : i # j => o[i] # o[j]}

\* match delta_trie_root(..) { Ok(root) => root, Err(_) => return [0; 32] },
\* then res.copy_from_slice(root.as_ref()): the bytes of the digest, unchecked.
RootOrSentinel(res, zero) ==
    IF IsOk(res) THEN as_ref(res[2], zero) ELSE ZeroRoot

\* Mutant: the copy takes what fits and never panics.
CopyFromSliceLenient(dst_len, src_len) == FALSE

\* res.copy_from_slice(root.as_ref()) panics unless both slices have the
\* same length.
CopyFromSlicePanics(dst_len, src_len) == dst_len # src_len

\* assert!(root.as_ref().len() <= STORAGE_ROOT_LEN), then the copy into the
\* 32-byte result; neither is reached when the delta application failed.
RootLenPanics(res, digest_len) ==
    /\ IsOk(res)
    /\ \/ ~(digest_len <= STORAGE_ROOT_LEN)
       \/ CopyFromSlicePanics(STORAGE_ROOT_LEN, digest_len)

\* Mutant: a successful call stores the new root as the held root.
AfterRootUpdatesHeld(self, r) ==
    [self EXCEPT !.witness_data = r.db, !.overlay = <<>>,
                 !.storage_root = IF IsOk(r.res) THEN r.res[2] ELSE @]

\* The view after delta_trie_root: the store as committed by the trie, the
\* overlay emptied by drain() (a drain dropped before its end clears the
\* rest), the held root untouched.
AfterRoot(self, r) == [self EXCEPT !.witness_data = r.db, !.overlay = <<>>]

\* Storage::storage_root for digests of digest_len bytes, of a hasher that
\* maps the node zero (if any) to zero bytes:
\* [panic |-> whether it panics, ret |-> the 32 bytes returned, self |-> self']
storage_root(self, order, digest_len, zero) ==
    LET done(r) ==
            [panic |-> RootLenPanics(r.res, digest_len),
             ret |-> RootOrSentinel(r.res, zero),
             self |-> AfterRoot(self, r)]
    IN done(delta_trie_root(self.witness_data, self.storage_root,
                            Drain(self.overlay, order)))

\* ------------------------------------------------------------------------
\* State of a validate_block call
\* ------------------------------------------------------------------------
VARIABLES
    params,     \* ValidationParams: block_data and parent_head, as decoded
    pc,         \* position of validate_block
    storage,    \* the local `storage` of validate_block (Option)
    STORAGE,    \* the global slot: Option<Box<dyn Storage>>
    rio,        \* implementation bound to each of the six rio operations
    guard,      \* `_guard`: the implementations to restore (Option)
    executed,   \* number of E::execute_block invocations
    ret,        \* result of the last ext_* call of the execution routine
    hist,       \* history: what was written, and the state before the call
    hash_len,   \* number of bytes of a B::Hash digest (fixed by the block type)
    zero_node   \* the node whose B::Hash digest is all zero bytes (Option)

vars == <<params, pc, storage, STORAGE, rio, guard, executed, ret, hist,
          hash_len, zero_node>>

Ops == {"ext_get_allocated_storage", "ext_get_storage_into", "ext_set_storage",
        "ext_exists_storage", "ext_clear_storage", "ext_storage_root"}

\* The adapter of this file bound to an operation by validate_block.
WitnessImpl == [op \in Ops |-> "witness"]
HostImpl == [op \in Ops |-> "host"]
OtherImpl == [op \in Ops |-> IF op = "ext_storage_root" THEN "host" ELSE "test"]

\* Header::hash of a parent header.
Headers == {1, 2}
HeaderHash(h) == 100 + h

\* A storage view left in the slot by earlier code, in another allocation.
StaleBox == [box |-> 0, view |-> [witness_data |-> MemoryDBDefault,
                                  overlay |-> <<>>,
                                  storage_root |-> HashedNullNode]]
\* Box::new(storage): the allocation made by this call.
BoxNew(view) == [box |-> 1, view |-> view]

NoRet == [op |-> "none", val |-> <<>>]

\* ------------------------------------------------------------------------
\* Inputs
\* ------------------------------------------------------------------------
RECURSIVE SetToSeq(_)
SetToSeq(S) ==
    IF S = {} THEN <<>>
    ELSE LET x == CHOOSE y \in S : TRUE IN <<x>> \o SetToSeq(S \ {x})

\* Leaf sets of the witness tries: any subset of the keys, the values chosen
\* so that two leaves can be equal (K1 and K3) or different.
LeafMaps ==
    {m \in UNION {[D -> LeafValues] : D \in SUBSET Keys} :
        /\ K1 \in DOMAIN m => m[K1] = V1
        /\ K2 \in DOMAIN m => m[K2] = V2}

\* Witness bundles for the trie of a leaf map: every node, every node with
\* the root node twice, and every node but one.
Bundles(m) ==
    LET root == BuildNode(PairsOf(m))
        nodes == NodesOf(root) IN
    {SetToSeq(nodes)}
    \cup {<<root>> \o SetToSeq(nodes)}
    \cup {SetToSeq(nodes \ {n}) : n \in nodes}

SmallMaps == {(K1 :> V1)}

BlockData(parent_hash, witness, root) ==
    [parent_hash |-> parent_hash, witness_data |-> witness,
     witness_data_storage_root |-> root]

\* Calls that exercise the pipeline: any decoding outcome, any parent, any
\* claimed root, over the witness trie of a small leaf map m.
PipelineParams(m) ==
    {[block_data |-> bd, parent_head |-> ph] :
        bd \in {None} \cup
               {Some(BlockData(HeaderHash(h), w, r)) :
                    h \in Headers,
                    w \in {SetToSeq(NodesOf(BuildNode(PairsOf(m)))), <<>>},
                    r \in {TrieRootOf(m), HashedNullNode, BogusRoot}},
        ph \in {None} \cup {Some(h) : h \in Headers}}

\* Calls that reach execution, over every bundle of the trie of m.
StorageParams(m) ==
    {[block_data |-> Some(BlockData(HeaderHash(1), w, TrieRootOf(m))),
      parent_head |-> Some(1)] : w \in Bundles(m)}

InitHist(m) == [writes |-> 0, roots |-> 0, lastWrite |-> <<>>, leaves |-> m,
                STORAGE |-> STORAGE, rio |-> rio, panic |-> "none"]

\* A call with any decoding outcome, parent and claimed root, made with the
\* slot empty or holding an earlier view.
Init ==
    /\ pc = "decode_block_data"
    /\ storage = None
    /\ guard = None
    /\ executed = 0
    /\ ret = NoRet
    /\ hash_len = STORAGE_ROOT_LEN
    /\ zero_node = None
    /\ \/ STORAGE = None /\ rio = HostImpl
       \/ STORAGE = Some(StaleBox) /\ rio = OtherImpl
    /\ \E m \in SmallMaps :
          /\ params \in PipelineParams(m)
          /\ hist = InitHist(m)

\* A call that decodes and links, over every witness trie and bundle.
InitStorage ==
    /\ pc = "decode_block_data"
    /\ storage = None
    /\ guard = None
    /\ executed = 0
    /\ ret = NoRet
    /\ STORAGE = None
    /\ rio = HostImpl
    /\ hash_len = STORAGE_ROOT_LEN
    /\ zero_node = None
    /\ \E m \in LeafMaps :
          /\ params \in StorageParams(m)
          /\ hist = InitHist(m)

\* Digest lengths of the block type: the 32 bytes of the root buffer, one
\* byte less and one byte more.
HashLens == {STORAGE_ROOT_LEN - 1, STORAGE_ROOT_LEN, STORAGE_ROOT_LEN + 1}

\* Leaf sets for the digest lengths: a single leaf, and two leaves under a
\* branch so that a bundle can miss a node below the root.
DigestMaps == {(K1 :> V1), (K1 :> V1) @@ (K3 :> V2)}

\* A call that decodes and links, for a block type with any digest length.
InitDigest ==
    /\ pc = "decode_block_data"
    /\ storage = None
    /\ guard = None
    /\ executed = 0
    /\ ret = NoRet
    /\ STORAGE = None
    /\ rio = HostImpl
    /\ hash_len \in HashLens
    /\ zero_node = None
    /\ \E m \in DigestMaps :
          /\ params \in StorageParams(m)
          /\ hist = InitHist(m)

\* Hashers of the block type: one with no all-zero digest on the nodes of
\* these tries, and one that maps ZeroDigestNode to 32 zero bytes.
ZeroNodes == {None, Some(ZeroDigestNode)}

\* Leaf sets for the hashers: a single leaf, to which a write adds the second
\* leaf of ZeroDigestNode, and two leaves under a branch.
HasherMaps == {(K3 :> V2), (K1 :> V1) @@ (K3 :> V2)}

\* A call that decodes and links, for a block type with any hasher.
InitHasher ==
    /\ pc = "decode_block_data"
    /\ storage = None
    /\ guard = None
    /\ executed = 0
    /\ ret = NoRet
    /\ STORAGE = None
    /\ rio = HostImpl
    /\ hash_len = STORAGE_ROOT_LEN
    /\ zero_node \in ZeroNodes
    /\ \E m \in HasherMaps :
          /\ params \in StorageParams(m)
          /\ hist = InitHist(m)

\* ------------------------------------------------------------------------
\* validate_block
\* ------------------------------------------------------------------------
\* A panic ends validate_block. What it runs is decided by the build: with
\* unwinding `_guard` is dropped if it was created, which puts back the
\* implementations it replaced; with panic = abort (the no_std wasm runtime)
\* the process stops at once, no destructor runs and the bindings stay.
Panic ==
    /\ pc' = "aborted"
    /\ \/ /\ rio' = IF IsSome(guard) THEN guard[1] ELSE rio
          /\ guard' = None
       \/ /\ rio' = rio
          /\ guard' = guard

\* ParachainBlockData::decode(..).expect("Invalid parachain block data")
DecodeBlockData ==
    /\ pc = "decode_block_data"
    /\ IF IsSome(params.block_data)
       THEN pc' = "decode_parent_head" /\ UNCHANGED <<rio, guard>>
       ELSE Panic
    /\ UNCHANGED <<hash_len, zero_node, params, storage, STORAGE, executed, ret, hist>>

\* B::Header::decode(..).expect("Invalid parent head")
DecodeParentHead ==
    /\ pc = "decode_parent_head"
    /\ IF IsSome(params.parent_head)
       THEN pc' = "check_parent_hash" /\ UNCHANGED <<rio, guard>>
       ELSE Panic
    /\ UNCHANGED <<hash_len, zero_node, params, storage, STORAGE, executed, ret, hist>>

\* Mutant: the parent hash is not compared.
CheckParentHashSkipped ==
    /\ pc = "check_parent_hash"
    /\ pc' = "new_storage"
    /\ UNCHANGED <<hash_len, zero_node, params, storage, STORAGE, rio, guard, executed, ret, hist>>

\* assert!(parent_head.hash() == *block.header().parent_hash(), ..)
CheckParentHash ==
    /\ pc = "check_parent_hash"
    /\ IF HeaderHash(params.parent_head[1]) = params.block_data[1].parent_hash
       THEN pc' = "new_storage" /\ UNCHANGED <<rio, guard>>
       ELSE Panic
    /\ UNCHANGED <<hash_len, zero_node, params, storage, STORAGE, executed, ret, hist>>

\* Mutant: a failed construction empties the global slot.
NewStorageClearsSlot ==
    /\ pc = "new_storage"
    /\ LET r == new(params.block_data[1].witness_data,
                    params.block_data[1].witness_data_storage_root) IN
       IF IsOk(r)
       THEN /\ pc' = "install" /\ storage' = Some(r[2])
            /\ UNCHANGED <<rio, guard, STORAGE>>
       ELSE Panic /\ STORAGE' = None /\ UNCHANGED storage
    /\ UNCHANGED <<hash_len, zero_node, params, executed, ret, hist>>

\* WitnessStorage::new(..).expect("Witness data and storage root always match; qed")
NewStorage ==
    /\ pc = "new_storage"
    /\ LET r == new(params.block_data[1].witness_data,
                    params.block_data[1].witness_data_storage_root) IN
       IF IsOk(r)
       THEN pc' = "install" /\ storage' = Some(r[2]) /\ UNCHANGED <<rio, guard>>
       ELSE Panic /\ UNCHANGED storage
    /\ UNCHANGED <<hash_len, zero_node, params, STORAGE, executed, ret, hist>>

\* let _guard = unsafe { STORAGE = Some(Box::new(storage)); (replace_implementation x 6) };
Install ==
    /\ pc = "install"
    /\ STORAGE' = Some(BoxNew(storage[1]))
    /\ storage' = None
    /\ guard' = Some(rio)
    /\ rio' = WitnessImpl
    /\ pc' = "execute_block"
    /\ UNCHANGED <<hash_len, zero_node, params, executed, ret, hist>>

\* Mutant: the execution routine can be entered again.
ExecuteBlockAgain ==
    /\ pc \in {"execute_block", "executing"}
    /\ executed < 3
    /\ executed' = executed + 1
    /\ pc' = "executing"
    /\ UNCHANGED <<hash_len, zero_node, params, storage, STORAGE, rio, guard, ret, hist>>

\* E::execute_block(block): the execution routine is entered.
ExecuteBlock ==
    /\ pc = "execute_block"
    /\ executed' = executed + 1
    /\ pc' = "executing"
    /\ UNCHANGED <<hash_len, zero_node, params, storage, STORAGE, rio, guard, ret, hist>>

\* The execution routine returns and validate_block ends: `_guard` is dropped.
Return ==
    /\ pc = "executing"
    /\ pc' = "returned"
    /\ rio' = guard[1]
    /\ guard' = None
    /\ UNCHANGED <<hash_len, zero_node, params, storage, STORAGE, executed, ret, hist>>

\* The execution routine panics (for instance on an invalid block).
ExecutionPanics ==
    /\ pc = "executing"
    /\ Panic
    /\ UNCHANGED <<hash_len, zero_node, params, storage, STORAGE, executed, ret, hist>>

\* ------------------------------------------------------------------------
\* The six adapters, called by the execution routine through rio
\* ------------------------------------------------------------------------
\* STORAGE.as_mut().expect(STORAGE_SET_EXPECT)
Active == STORAGE[1].view
Calling(op) == pc = "executing" /\ rio[op] = "witness" /\ IsSome(STORAGE)
SetActive(view) == STORAGE' = Some([STORAGE[1] EXCEPT !.view = view])

Min(a, b) == IF a <= b THEN a ELSE b

\* Mutant: an empty value is reported as absent.
GetAllocatedEmptyIsAbsent(view, key) ==
    LET v == get(view, key) IN
    IF IsSome(v) /\ v[1] # <<>>
    THEN [written_out |-> Len(v[1]), ptr |-> Some(v[1])]
    ELSE [written_out |-> U32_MAX, ptr |-> None]

\* ext_get_allocated_storage: [written_out, ptr], ptr the new buffer or null
GetAllocated(view, key) ==
    LET v == get(view, key) IN
    IF IsSome(v) THEN [written_out |-> Len(v[1]), ptr |-> Some(v[1])]
    ELSE [written_out |-> U32_MAX, ptr |-> None]

ext_get_allocated_storage(key) ==
    /\ Calling("ext_get_allocated_storage")
    /\ ret' = [op |-> "ext_get_allocated_storage", val |-> GetAllocated(Active, key)]
    /\ UNCHANGED <<hash_len, zero_node, params, pc, storage, STORAGE, rio, guard, executed, hist>>

\* ext_set_storage
ext_set_storage(key, value) ==
    /\ Calling("ext_set_storage")
    /\ hist.writes < MaxWrites
    /\ SetActive(insert(Active, key, value))
    /\ ret' = [op |-> "ext_set_storage", val |-> <<>>]
    /\ hist' = [hist EXCEPT !.writes = @ + 1,
                            !.lastWrite = (key :> Some(value)) @@ @]
    /\ UNCHANGED <<hash_len, zero_node, params, pc, storage, rio, guard, executed>>

\* ext_get_storage_into: the slice value[value_offset..] panics when the
\* offset is past the end of the value.
GetIntoPanics(view, key, value_offset) ==
    LET v == get(view, key) IN IsSome(v) /\ value_offset > Len(v[1])

\* [n |-> the u32 returned, written |-> the bytes copied to the destination]
GetInto(view, key, value_len, value_offset) ==
    LET v == get(view, key) IN
    IF IsSome(v)
    THEN LET value == Mid(v[1], value_offset)
             len == Min(value_len, Len(value)) IN
         [n |-> len, written |-> SubSeq(value, 1, len)]
    ELSE [n |-> U32_MAX, written |-> <<>>]

ext_get_storage_into(key, value_len, value_offset) ==
    /\ Calling("ext_get_storage_into")
    /\ IF GetIntoPanics(Active, key, value_offset)
       THEN /\ Panic
            /\ hist' = [hist EXCEPT !.panic = "ext_get_storage_into"]
            /\ UNCHANGED ret
       ELSE /\ ret' = [op |-> "ext_get_storage_into",
                       val |-> GetInto(Active, key, value_len, value_offset)]
            /\ UNCHANGED <<pc, rio, guard, hist>>
    /\ UNCHANGED <<hash_len, zero_node, params, storage, STORAGE, executed>>

\* Mutant: a key with an empty value counts as absent.
ExistsNonEmpty(view, key) ==
    IF IsSome(get(view, key)) /\ get(view, key)[1] # <<>> THEN 1 ELSE 0

\* ext_exists_storage
Exists(view, key) == IF IsSome(get(view, key)) THEN 1 ELSE 0

ext_exists_storage(key) ==
    /\ Calling("ext_exists_storage")
    /\ ret' = [op |-> "ext_exists_storage", val |-> Exists(Active, key)]
    /\ UNCHANGED <<hash_len, zero_node, params, pc, storage, STORAGE, rio, guard, executed, hist>>

\* ext_clear_storage
ext_clear_storage(key) ==
    /\ Calling("ext_clear_storage")
    /\ hist.writes < MaxWrites
    /\ SetActive(remove(Active, key))
    /\ ret' = [op |-> "ext_clear_storage", val |-> <<>>]
    /\ hist' = [hist EXCEPT !.writes = @ + 1, !.lastWrite = (key :> None) @@ @]
    /\ UNCHANGED <<hash_len, zero_node, params, pc, storage, rio, guard, executed>>

\* ext_storage_root: the overlay is drained in some order of the hash map.
ext_storage_root ==
    /\ Calling("ext_storage_root")
    /\ hist.roots < MaxRootCalls
    /\ \E order \in DrainOrders(DOMAIN Active.overlay) :
          \E r \in {storage_root(Active, order, hash_len, zero_node)} :
             /\ SetActive(r.self)
             /\ IF r.panic
                THEN /\ Panic
                     /\ hist' = [hist EXCEPT !.roots = @ + 1,
                                             !.panic = "ext_storage_root"]
                     /\ UNCHANGED ret
                ELSE /\ ret' = [op |-> "ext_storage_root", val |-> r.ret]
                     /\ hist' = [hist EXCEPT !.roots = @ + 1]
                     /\ UNCHANGED <<pc, rio, guard>>
    /\ UNCHANGED <<hash_len, zero_node, params, storage, executed>>

\* <<value_len, value_offset>> arguments of ext_get_storage_into
LenOffsets == {<<0, 0>>, <<1, 0>>, <<3, 0>>, <<3, 1>>, <<1, 3>>}

Next ==
    \/ DecodeBlockData
    \/ DecodeParentHead
    \/ CheckParentHash
    \/ NewStorage
    \/ Install
    \/ ExecuteBlock
    \/ Return
    \/ ExecutionPanics
    \/ \E k \in Keys : ext_get_allocated_storage(k)
    \/ \E k \in Keys, v \in Values : ext_set_storage(k, v)
    \/ \E k \in Keys, lo \in LenOffsets : ext_get_storage_into(k, lo[1], lo[2])
    \/ \E k \in Keys : ext_exists_storage(k)
    \/ \E k \in Keys : ext_clear_storage(k)
    \/ ext_storage_root

Spec == Init /\ [][Next]_vars

\* The writing side of the execution routine: set, clear and storage root.
NextStorage ==
    \/ DecodeBlockData
    \/ DecodeParentHead
    \/ CheckParentHash
    \/ NewStorage
    \/ Install
    \/ ExecuteBlock
    \/ Return
    \/ ExecutionPanics
    \/ \E k \in Keys, v \in Values : ext_set_storage(k, v)
    \/ \E k \in Keys : ext_clear_storage(k)
    \/ ext_storage_root

SpecStorage == InitStorage /\ [][NextStorage]_vars

\* The same calls for a block type with any digest length.
SpecDigest == InitDigest /\ [][NextStorage]_vars

\* The same, for a block type with any hasher of 32-byte digests.
SpecHasher == InitHasher /\ [][NextStorage]_vars

TypeOK == pc \in {"decode_block_data", "decode_parent_head", "check_parent_hash",
                  "new_storage", "install", "execute_block", "executing",
                  "returned", "aborted"}

\* ------------------------------------------------------------------------
\* Properties
\* ------------------------------------------------------------------------
Claimed == params.block_data[1]
BundleBlobs == {Claimed.witness_data[i] : i \in 1..Len(Claimed.witness_data)}
RootInBundle == \E b \in BundleBlobs : HashOf(b) = Claimed.witness_data_storage_root
DecodesOk == IsSome(params.block_data) /\ IsSome(params.parent_head)
ParentMatches == HeaderHash(params.parent_head[1]) = Claimed.parent_hash
ConstructionOk == IsOk(new(Claimed.witness_data, Claimed.witness_data_storage_root))
SetupOk == DecodesOk /\ ParentMatches /\ ConstructionOk
Ended == pc \in {"returned", "aborted"}
BeforeConstruction == {"decode_block_data", "decode_parent_head",
                       "check_parent_hash", "new_storage"}

\* The witness bundle holds every node of the trie of the leaf set, and the
\* claimed root is the root of that trie.
BundleComplete ==
    /\ NodesOf(BuildNode(PairsOf(hist.leaves))) \subseteq BundleBlobs
    /\ Claimed.witness_data_storage_root = TrieRootOf(hist.leaves)

\* The store as loaded from the bundle, and a lookup in it from the claimed
\* root with a failure read as absent.
BundleStore == LoadWitness(MemoryDBDefault, Claimed.witness_data)
TrieLookupOrAbsent(k) ==
    LET r == read_trie_value(BundleStore, Claimed.witness_data_storage_root, k)
    IN IF IsOk(r) THEN r[2] ELSE None
LeafOf(k) == IF k \in DOMAIN hist.leaves THEN Some(hist.leaves[k]) ELSE None

\* C1: before any storage_root call, get(k) is decided by the latest write
\* to k: the inserted value after insert(k, v), absent after remove(k) even
\* when the trie holds a value, and for a key never written the result of
\* the trie lookup from the held root with a lookup failure read as absent
\* (which is the leaf of k when the bundle holds the whole trie).
C1_LatestWriteDecidesGet ==
    (pc = "executing" /\ hist.roots = 0) =>
        \A k \in Keys :
            /\ k \in DOMAIN hist.lastWrite => get(Active, k) = hist.lastWrite[k]
            /\ k \notin DOMAIN hist.lastWrite =>
                    /\ get(Active, k) = TrieLookupOrAbsent(k)
                    /\ BundleComplete => get(Active, k) = LeafOf(k)

\* A removed key that the trie holds, next to an unwritten key whose lookup
\* fails on a missing witness node and another whose lookup succeeds.
C1_Witness ==
    /\ pc = "executing" /\ hist.roots = 0
    /\ \E k \in DOMAIN hist.lastWrite :
          hist.lastWrite[k] = None /\ TrieLookupOrAbsent(k) # None
    /\ \E k \in DOMAIN hist.lastWrite : hist.lastWrite[k] = Some(V2)
    /\ \E k \in Keys \ DOMAIN hist.lastWrite :
          ~IsOk(read_trie_value(BundleStore, Claimed.witness_data_storage_root, k))

\* The leaf set with the latest write per key applied: an inserted key maps
\* to its value (an empty value included), a removed key is dropped.
WritesApplied ==
    LET w == hist.lastWrite
        dom == (DOMAIN hist.leaves \ {k \in DOMAIN w : w[k] = None})
               \cup {k \in DOMAIN w : w[k] # None} IN
    [k \in dom |-> IF k \in DOMAIN w THEN w[k][1] ELSE hist.leaves[k]]

\* The same, with an insert of an empty value counted as a remove.
WritesAppliedNonEmpty ==
    LET m == WritesApplied IN
    [k \in {x \in DOMAIN m : m[x] # <<>>} |-> m[k]]

FirstRootCall == hist.roots = 0 /\ hist'.roots = 1

\* C2 as stated: the first storage_root() over a complete witness trie
\* returns the root of the trie built from the leaf set with the latest
\* write per key applied.
C2_FirstRootIsRootOfWrittenTrie ==
    [][(FirstRootCall /\ BundleComplete)
            => ret'.val = TrieRootOf(WritesApplied)]_vars

\* C2 amended: the first storage_root() over a complete witness trie returns
\* the root of the trie built from the leaf set with the latest write per key
\* applied, where an insert of an empty value counts as a remove of the key.
C2_FirstRootIsRootOfNonEmptyWrites ==
    [][(FirstRootCall /\ BundleComplete)
            => ret'.val = TrieRootOf(WritesAppliedNonEmpty)]_vars

\* A first root over a complete bundle after an insert that changed the trie
\* and a remove of a key the trie held.
C2_Witness ==
    /\ hist.roots = 1 /\ ret.op = "ext_storage_root" /\ BundleComplete
    /\ Cardinality(DOMAIN hist.lastWrite) = 2
    /\ \E k \in DOMAIN hist.lastWrite :
          hist.lastWrite[k] = None /\ k \in DOMAIN hist.leaves
    /\ \E k \in DOMAIN hist.lastWrite :
          hist.lastWrite[k] = Some(V2) /\ LeafOf(k) # Some(V2)
    /\ ret.val = TrieRootOf(WritesAppliedNonEmpty)
    /\ ret.val # TrieRootOf(hist.leaves)

\* C3: a storage_root() call that directly follows a storage_root() call
\* returns the same bytes as that call.
C3_SecondRootEqualsFirst ==
    [][(ret.op = "ext_storage_root" /\ hist'.roots = hist.roots + 1)
            => ret'.val = ret.val]_vars

\* C4: construction succeeds exactly when the bundle contains a node whose
\* hash is the supplied root, and fails with no view otherwise.
C4_NewOkIffRootInBundle ==
    [][pc = "new_storage" =>
            /\ (pc' = "install" /\ IsSome(storage')) <=> RootInBundle
            /\ (pc' = "aborted" /\ storage' = None) <=> ~RootInBundle]_vars

\* C5: with a parent hash that differs from the hash of the parent header
\* the call aborts with no storage view constructed or installed and the
\* execution routine not invoked.
C5_ParentMismatchAbortsFirst ==
    (DecodesOk /\ ~ParentMatches) =>
        /\ pc \in {"decode_block_data", "decode_parent_head",
                   "check_parent_hash", "aborted"}
        /\ storage = None
        /\ STORAGE = hist.STORAGE
        /\ guard = None
        /\ executed = 0

\* Both decodes succeeded, the parent hash differs and the call has aborted,
\* on a bundle and root for which the construction would have succeeded.
C5_Witness ==
    /\ DecodesOk /\ ~ParentMatches /\ pc = "aborted"
    /\ ConstructionOk

AbortedAtConstruction ==
    /\ pc \in BeforeConstruction \cup {"aborted"}
    /\ storage = None
    /\ STORAGE = hist.STORAGE
    /\ guard = None
    /\ executed = 0
    /\ ret = NoRet /\ hist.writes = 0 /\ hist.roots = 0

\* C6: with the claimed root absent from the bundle the call aborts
\* at construction: no operation is performed on a view and the execution
\* routine is never invoked.
C6_RootAbsentAbortsAtConstruction ==
    (DecodesOk /\ ParentMatches /\ ~RootInBundle) => AbortedAtConstruction

\* C7: once the call has ended, by return or by abort, each of the six
\* operations is bound to the implementation bound before the call and none
\* to the witness adapter.
C7_BindingsRestored ==
    Ended => /\ rio = hist.rio
             /\ \A op \in Ops : rio[op] # "witness"

\* C8: once the call has ended the slot does not hold the view that the
\* call installed.
C8_SlotReleasedAfterCall ==
    Ended => ~(IsSome(STORAGE) /\ STORAGE[1].box = 1)

Rank(p) ==
    CASE p = "decode_block_data" -> 1
      [] p = "decode_parent_head" -> 2
      [] p = "check_parent_hash" -> 3
      [] p = "new_storage" -> 4
      [] p = "install" -> 5
      [] p = "execute_block" -> 6
      [] p = "executing" -> 7
      [] OTHER -> 8

\* C9: the execution routine is invoked at most once, and exactly once when
\* the decodes, the parent check and the construction succeed; when it is
\* invoked the view of this call is in the slot and the six operations are
\* bound to the witness adapters; no step is taken twice.
C9_ExecutedOnceAfterInstall ==
    /\ [](/\ executed \in {0, 1}
          /\ pc \in {"executing", "returned"} => executed = 1
          /\ (Ended /\ SetupOk) => executed = 1
          /\ (DecodesOk => (executed = 1 => SetupOk)))
    /\ [][/\ executed' # executed =>
                /\ executed = 0
                /\ IsSome(STORAGE) /\ STORAGE[1].box = 1
                /\ STORAGE[1].view.storage_root = Claimed.witness_data_storage_root
                /\ rio = WitnessImpl
          /\ pc' # pc => Rank(pc') > Rank(pc)]_vars

C9_Witness ==
    /\ pc = "returned" /\ executed = 1 /\ SetupOk
    /\ hist.writes > 0

\* C10: when a step before the installation fails, the call aborts with the
\* execution routine not invoked and with the slot and the six bindings as
\* they were before the call.
C10_EarlyFailureLeavesGlobals ==
    /\ ~(DecodesOk /\ SetupOk) =>
            /\ pc \in BeforeConstruction \cup {"aborted"}
            /\ executed = 0 /\ STORAGE = hist.STORAGE /\ rio = hist.rio
    /\ (pc = "aborted" /\ executed = 0) =>
            /\ ~(DecodesOk /\ SetupOk)
            /\ STORAGE = hist.STORAGE /\ rio = hist.rio /\ guard = None

\* The construction failed with an earlier view in the slot.
C10_Witness ==
    /\ pc = "aborted" /\ DecodesOk /\ ParentMatches /\ ~ConstructionOk
    /\ STORAGE = Some(StaleBox) /\ rio = OtherImpl

\* A storage_root call of the execution routine was made in this step.
RootStep == hist'.roots = hist.roots + 1

\* delta_trie_root over the active view with its overlay drained in an order.
DeltaResult(order) ==
    delta_trie_root(Active.witness_data, Active.storage_root,
                    Drain(Active.overlay, order))

\* C11: a storage_root() call does not abort; it returns the all-zero
\* sentinel when applying the overlay deltas fails and only then: a
\* successful computation never returns the all-zero value.
C11_SentinelIffDeltaFails ==
    [][RootStep =>
          /\ pc' = "executing" /\ ret'.op = "ext_storage_root"
          /\ \E o \in DrainOrders(DOMAIN Active.overlay) :
                /\ DeltaResult(o).db = STORAGE'[1].view.witness_data
                /\ ret'.val = ZeroRoot <=> ~IsOk(DeltaResult(o).res)
          /\ (BundleComplete /\ hist.roots = 0) => ret'.val # ZeroRoot]_vars

\* The bytes of a value past an offset: none when the offset is at or past
\* the end of the value.
AvailablePast(value, offset) ==
    IF offset >= Len(value) THEN <<>> ELSE SubSeq(value, offset + 1, Len(value))

\* C12: ext_get_storage_into does not abort; for an absent key it returns
\* u32::MAX and writes nothing, and for a key with a value it copies and
\* returns the minimum of the destination length and the number of value
\* bytes past the offset, which is 0 for an offset at or past the end.
C12_GetIntoCopiesMinNeverAborts ==
    [][\A k \in Keys, lo \in LenOffsets :
          ext_get_storage_into(k, lo[1], lo[2]) =>
             /\ pc' = "executing"
             /\ ret'.op = "ext_get_storage_into"
             /\ LET v == get(Active, k)
                    avail == AvailablePast(v[1], lo[2])
                    n == Min(lo[1], Len(avail)) IN
                ret'.val = IF v = None
                           THEN [n |-> U32_MAX, written |-> <<>>]
                           ELSE [n |-> n, written |-> SubSeq(avail, 1, n)]]_vars

\* C13: ext_get_allocated_storage writes u32::MAX to the length and returns
\* a null pointer when get(key) of the active view is absent; otherwise it
\* writes the exact length of the value and returns a new buffer holding the
\* value (also for an empty value); the view, with its overlay and store,
\* and everything but the result of the call are unchanged.
C13_GetAllocatedReturnsValue ==
    [][\A k \in Keys :
          (ret'.op = "ext_get_allocated_storage" /\ ext_get_allocated_storage(k)) =>
             /\ ret'.op = "ext_get_allocated_storage"
             /\ LET v == get(Active, k) IN
                IF v = None
                THEN ret'.val = [written_out |-> U32_MAX, ptr |-> None]
                ELSE /\ ret'.val.written_out = Len(v[1])
                     /\ ret'.val.written_out # U32_MAX
                     /\ ret'.val.ptr = Some(v[1])
             /\ (hist.roots = 0 /\ k \in DOMAIN hist.lastWrite) =>
                   ret'.val.ptr = hist.lastWrite[k]
             /\ STORAGE' = STORAGE /\ pc' = pc
             /\ \A q \in Keys : get(STORAGE'[1].view, q) = get(Active, q)]_vars

\* A read of a key set to the empty value returned length 0 and a buffer.
C13_Witness ==
    /\ pc = "executing"
    /\ ret = [op |-> "ext_get_allocated_storage",
              val |-> [written_out |-> 0, ptr |-> Some(<<>>)]]
    /\ \E k \in DOMAIN hist.lastWrite : hist.lastWrite[k] = Some(<<>>)
    /\ \E k \in Keys : get(Active, k) = None

\* C14: during execution the three read operations agree on presence for
\* every key: ext_exists_storage returns 1 exactly when get is not absent,
\* when ext_get_allocated_storage returns a length other than u32::MAX and
\* when ext_get_storage_into at offset 0 returns a count other than u32::MAX,
\* and 0 otherwise; it is 1 right after ext_set_storage on the key, also with
\* an empty value, and 0 right after ext_clear_storage on it.
C14_ReadsAgreeOnPresence ==
    /\ [](pc = "executing" =>
            \A k \in Keys :
               /\ Exists(Active, k) \in {0, 1}
               /\ Exists(Active, k) = 1 <=> get(Active, k) # None
               /\ Exists(Active, k) = 1 <=>
                     GetAllocated(Active, k).written_out # U32_MAX
               /\ ~GetIntoPanics(Active, k, 0)
               /\ \A len \in {0, 1, 3} :
                     Exists(Active, k) = 1 <=>
                        GetInto(Active, k, len, 0).n # U32_MAX)
    /\ [][\A k \in Keys :
             /\ \A v \in Values :
                   (hist'.writes # hist.writes /\ ext_set_storage(k, v))
                      => Exists(STORAGE'[1].view, k) = 1
             /\ (hist'.writes # hist.writes /\ ext_clear_storage(k))
                   => Exists(STORAGE'[1].view, k) = 0
             /\ (ret'.op = "ext_exists_storage" /\ ext_exists_storage(k)) =>
                   ret' = [op |-> "ext_exists_storage", val |-> Exists(Active, k)]]_vars

\* ext_exists_storage returned 1 with a key set to the empty value present
\* and a key of the witness trie cleared and absent.
C14_Witness ==
    /\ pc = "executing"
    /\ ret = [op |-> "ext_exists_storage", val |-> 1]
    /\ \E k \in DOMAIN hist.lastWrite :
          hist.lastWrite[k] = Some(<<>>) /\ Exists(Active, k) = 1
    /\ \E k \in DOMAIN hist.lastWrite :
          /\ hist.lastWrite[k] = None /\ k \in DOMAIN hist.leaves
          /\ Exists(Active, k) = 0

\* C15: a storage_root() call that computed a digest returns it only when
\* the digest is exactly 32 bytes long, and then returns all of it; for a
\* shorter or a longer digest the call aborts and no root value is returned.
\* Without a digest (failed delta application) the sentinel is returned.
C15_RootReturnedOnlyFor32Bytes ==
    [][RootStep =>
          /\ \E o \in DrainOrders(DOMAIN Active.overlay) :
                /\ DeltaResult(o).db = STORAGE'[1].view.witness_data
                /\ IF ~IsOk(DeltaResult(o).res)
                   THEN pc' = "executing" /\ ret'.val = ZeroRoot
                   ELSE IF hash_len = STORAGE_ROOT_LEN
                   THEN pc' = "executing" /\ ret'.val = DeltaResult(o).res[2]
                   ELSE /\ pc' = "aborted" /\ ret' = ret
                        /\ hist'.panic = "ext_storage_root"
          /\ (pc' = "executing" /\ ret'.val # ZeroRoot)
                => hash_len = STORAGE_ROOT_LEN]_vars

\* A root computed with a digest one byte short: the assertion passed and
\* the copy into the 32-byte result aborted the call.
C15_Witness ==
    /\ hash_len = STORAGE_ROOT_LEN - 1
    /\ pc = "aborted" /\ hist.panic = "ext_storage_root"
    /\ hist.roots = 1 /\ hist.writes > 0
    /\ ret.op # "ext_storage_root"

\* The hashes of the nodes a store holds.
StoreNodes(db) == {h \in DOMAIN db : MemDBRc(db, h) > 0}

\* C16: the store of the installed view holds exactly the nodes loaded from
\* the witness bundle, whatever insert, remove and storage_root calls were
\* made.
C16_StoreHoldsExactlyTheBundle ==
    (IsSome(STORAGE) /\ STORAGE[1].box = 1) =>
        /\ StoreNodes(Active.witness_data) = StoreNodes(BundleStore)
        /\ \A h \in StoreNodes(BundleStore) :
              MemDBGet(Active.witness_data, h) = MemDBGet(BundleStore, h)

\* The view of the slot after the step.
ActiveNext == STORAGE'[1].view

\* C17: a storage_root() call that returns the all-zero sentinel leaves the
\* overlay as it was, so that get still returns every pending write.
C17_FailedRootKeepsOverlay ==
    [][(RootStep /\ pc' = "executing" /\ ret'.val = ZeroRoot) =>
          /\ ActiveNext.overlay = Active.overlay
          /\ \A k \in DOMAIN Active.overlay :
                get(ActiveNext, k) = Active.overlay[k]]_vars

\* C18: after a successful storage_root() call get returns what was written
\* before it: the value of an insert (here of a non-empty value) and absent
\* for a remove.
C18_CommittedWritesStayVisible ==
    [][(RootStep /\ pc' = "executing" /\ ret'.val # ZeroRoot) =>
          \A k \in DOMAIN Active.overlay :
             Active.overlay[k] # Some(<<>>) =>
                get(ActiveNext, k) = Active.overlay[k]]_vars

\* C19: for a key never written, get returns what it returned right after
\* construction (the lookup in the store as loaded), whatever storage_root
\* calls and writes to other keys were made.
C19_UnwrittenKeysReadTheSame ==
    (pc = "executing" /\ IsSome(STORAGE)) =>
        \A k \in Keys \ DOMAIN hist.lastWrite :
            get(Active, k) = TrieLookupOrAbsent(k)

\* C20: the root held by the view of this call is the claimed pre-state
\* root in every state, before and after it is installed and whatever get,
\* insert, remove and storage_root calls were made; the construction is the
\* only step that aborts on a root missing from the store: a storage_root
\* call made when the held root is no longer in the store returns the
\* sentinel and the call goes on with the same held root.
C20_HeldRootIsClaimedRoot ==
    /\ [](/\ IsSome(storage) =>
                storage[1].storage_root = Claimed.witness_data_storage_root
          /\ (IsSome(STORAGE) /\ STORAGE[1].box = 1) =>
                Active.storage_root = Claimed.witness_data_storage_root)
    /\ [][/\ (RootStep /\ ~MemDBContains(Active.witness_data, Active.storage_root))
                => /\ pc' = "executing" /\ ret'.val = ZeroRoot
                   /\ ActiveNext.storage_root = Active.storage_root
          /\ pc' = "new_storage" => pc = "check_parent_hash"]_vars

\* After a root call that returned a new root the held root is still the
\* claimed one, although it is no longer in the store, and a second root
\* call has returned the sentinel.
C20_Witness ==
    /\ pc = "executing" /\ hist.roots = 2
    /\ Active.storage_root = Claimed.witness_data_storage_root
    /\ ~MemDBContains(Active.witness_data, Active.storage_root)
    /\ ret = [op |-> "ext_storage_root", val |-> ZeroRoot]
    /\ RootInBundle

====
